---------------------------- MODULE Spec2Model ----------------------------
(***************************************************************************)
(* Model of hackrf_beep.c: the sample generator tx_callback, the signal    *)
(* handler and the control flow of main.                                   *)
(*                                                                         *)
(* The source fixes the mark cycle at 6666 samples, the space cycle at     *)
(* 3636 samples, the carrier cycle at 10 samples and the sample rate at    *)
(* 8000000.  An explicit-state check cannot run loops of that length, so   *)
(* the four numbers are the bounds MarkLen, SpaceLen, CarrierLen and sr of *)
(* the model: small stand-ins that keep MarkLen > SpaceLen, a ratio that   *)
(* is not an integer, and sr large enough for a whole table cycle to be    *)
(* emitted between two tone flips.  Every arithmetic step is the source's. *)
(* With the source's numbers the largest product is 6666 * 3635, below     *)
(* 2^31, so the int arithmetic of the source does not wrap either.         *)
(*                                                                         *)
(* A byte written to the transfer buffer is modelled by the table cell it  *)
(* is read from, <<table, row, column>>.  tx_callback writes the buffer    *)
(* from index 0 upwards without a gap, so the bytes it wrote are kept as a *)
(* sequence: buffer[i + 1] is the byte at index i of transfer->buffer.     *)
(***************************************************************************)
EXTENDS Integers, Sequences, FiniteSets, TLC

\* Stand-in for the 6666 rows of mi/mq (samples per mark cycle).
MarkLen == 5
\* Stand-in for the 3636 rows of si/sq (samples per space cycle).
SpaceLen == 3
\* Stand-in for the 10 columns of the tables (samples per carrier cycle).
CarrierLen == 2
\* Stand-in for the sample rate sr = 8000000.
sr == 12
\* A driver that keeps to even lengths hands over at most MaxBytes bytes in total.
MaxBytes == 60
\* A driver that hands over any length hands over at most MaxAnyBytes bytes in total.
MaxAnyBytes == 26

\* Real numbers are multiples of 1 / Grain: the values of sin and cos are
\* u / Grain for u in -Grain .. Grain.
Grain == 64
\* The factor 127.0 of the table cells.
Amplitude == 127

\* Size of the driver's transfer buffer: valid_length never exceeds it.
BufLen == 2 * sr

VARIABLES
  co, mo, so,     \* playback phase offsets for carrier, mark and space
  sn,             \* sample number
  ms,             \* mark or space?
  do_exit,        \* time to give up?
  device,         \* handle for the HackRF: "NULL" or "dev"
  tables,         \* "zero" until main has filled mi, mq, si, sq: then "built"
  pc,             \* position of main
  result,         \* main's variable result
  handlers,       \* TRUE once main has installed sigint_callback_handler
  streaming,      \* what hackrf_is_streaming(device) reports
  calls,          \* the libhackrf calls main has made, in order
  exitStatus,     \* "running", or the value main returned
  failed,         \* the libhackrf calls of main that did not return HACKRF_SUCCESS
  count,          \* valid_length of the latest transfer
  buffer,         \* the bytes the latest tx_callback wrote, from index 0 on
  ret,            \* the values tx_callback has returned (at most the latest)
  pre,            \* co, mo, so, sn, ms and do_exit when the latest tx_callback began
  flipsInCall,    \* number of times the latest tx_callback inverted ms
  nflips,         \* number of times ms has been inverted
  totalBytes,     \* sum of valid_length over all transfers
  totalPairs,     \* number of I/Q pairs written over all transfers
  runStart,       \* tone of the latest transfer, its offset and co when the
                  \* unbroken series of transfers of that tone began
  runPairs,       \* pairs written in that series
  prev,           \* the transfer before the latest: whether it inverted ms, and
                  \* the last byte it wrote (<<>> if it wrote none)
  sample,         \* a value of sin or cos that main converts, in units of 1 / Grain
  stored          \* the table cell main stored for it, <<>> before the conversion

phase == <<co, mo, so, sn, ms>>
ghost == <<count, buffer, ret, pre, flipsInCall, nflips, totalBytes, totalPairs,
           runStart, runPairs, prev>>
mainv == <<device, tables, pc, result, handlers, calls, exitStatus, failed>>
cellv == <<sample, stored>>
vars == <<phase, do_exit, streaming, mainv, ghost, cellv>>

HACKRF_SUCCESS == "HACKRF_SUCCESS"
HACKRF_ERROR == "HACKRF_ERROR"
Results == {HACKRF_SUCCESS, HACKRF_ERROR}

-----------------------------------------------------------------------------
(* tx_callback *)

\* The I and Q table of a tone.
TableI(mark) == IF mark THEN "mi" ELSE "si"
TableQ(mark) == IF mark THEN "mq" ELSE "sq"

\* Rows of the active table, and of the other one.
ActiveLen(mark) == IF mark THEN MarkLen ELSE SpaceLen
InactiveLen(mark) == IF mark THEN SpaceLen ELSE MarkLen

\* A variant of WaveLoop whose row wraps one step late (off %= len + 1).
RECURSIVE WaveLoopOffByOne(_, _, _, _, _, _)
WaveLoopOffByOne(i, n, c, off, mark, buf) ==
  IF i < n
    THEN WaveLoopOffByOne(i + 2, n, (c + 1) % CarrierLen,
                          (off + 1) % (ActiveLen(mark) + 1), mark,
                          Append(Append(buf, <<TableI(mark), off, c>>),
                                 <<TableQ(mark), off, c>>))
    ELSE [co |-> c, off |-> off, buf |-> buf, i |-> i]

\* while ( i < count ) { buffer[i++] = I ; buffer[i++] = Q ; co++ ; co %= 10 ;
\*                       off++ ; off %= len ; }
RECURSIVE WaveLoop(_, _, _, _, _, _)
WaveLoop(i, n, c, off, mark, buf) ==
  IF i < n
    THEN WaveLoop(i + 2, n, (c + 1) % CarrierLen,
                  (off + 1) % ActiveLen(mark), mark,
                  Append(Append(buf, <<TableI(mark), off, c>>),
                         <<TableQ(mark), off, c>>))
    ELSE [co |-> c, off |-> off, buf |-> buf, i |-> i]

\* A variant of PhaseMap with the two table lengths exchanged.
PhaseMapSwapped(inactiveLen, off, activeLen) == (activeLen * off) \div inactiveLen

\* A variant of PhaseMap that rounds to the nearest row.
PhaseMapNearest(inactiveLen, off, activeLen) ==
  (2 * inactiveLen * off + activeLen) \div (2 * activeLen)

\* A variant of PhaseMap that rounds up.
PhaseMapUp(inactiveLen, off, activeLen) ==
  (inactiveLen * off + activeLen - 1) \div activeLen

\* so = 3636 * mo / 6666 ;  mo = 6666 * so / 3636 ;   (int division, operands >= 0)
PhaseMap(inactiveLen, off, activeLen) == (inactiveLen * off) \div activeLen

\* A variant of ToneSwitch that forgets to take the second off the sample number.
ToneSwitchKeep(s, mark) ==
  IF s >= sr
    THEN [ms |-> ~mark, sn |-> s, flips |-> 1]
    ELSE [ms |-> mark, sn |-> s, flips |-> 0]

\* A variant of ToneSwitch that clears the sample number at a flip.
ToneSwitchZero(s, mark) ==
  IF s >= sr
    THEN [ms |-> ~mark, sn |-> 0, flips |-> 1]
    ELSE [ms |-> mark, sn |-> s, flips |-> 0]

\* A variant of ToneSwitch that sets ms where it should invert it.
ToneSwitchSet(s, mark) ==
  IF s >= sr
    THEN [ms |-> TRUE, sn |-> s - sr, flips |-> IF mark THEN 0 ELSE 1]
    ELSE [ms |-> mark, sn |-> s, flips |-> 0]

\* A variant of ToneSwitch that keeps flipping while a second is left.
ToneSwitchWhile(s, mark) ==
  [ms |-> IF (s \div sr) % 2 = 1 THEN ~mark ELSE mark,
   sn |-> s % sr, flips |-> s \div sr]

\* if ( sn >= sr ) { ms = !ms ; sn -= sr ; }
ToneSwitch(s, mark) ==
  IF s >= sr
    THEN [ms |-> ~mark, sn |-> s - sr, flips |-> 1]
    ELSE [ms |-> mark, sn |-> s, flips |-> 0]

\* A variant of TxStatus that asks the driver to stop once do_exit is set.
TxStatusAbort(giveUp) == IF giveUp THEN 1 ELSE 0

\* return 0 ;
TxStatus(giveUp) == 0

\* A variant of Fill that restarts the carrier when the tone changes.
FillRestart(n) ==
  LET w == WaveLoop(0, n, co, IF ms THEN mo ELSE so, ms, <<>>)
      other == PhaseMap(InactiveLen(ms), w.off, ActiveLen(ms))
      t == ToneSwitch(sn + n, ms)
  IN [co |-> IF t.flips = 1 THEN 0 ELSE w.co,
      mo |-> IF ms THEN w.off ELSE other,
      so |-> IF ms THEN other ELSE w.off,
      sn |-> t.sn, ms |-> t.ms, flips |-> t.flips,
      buf |-> w.buf, pairs |-> w.i \div 2,
      status |-> TxStatus(do_exit)]

\* The whole of tx_callback on a transfer of valid_length n.
Fill(n) ==
  LET w == WaveLoop(0, n, co, IF ms THEN mo ELSE so, ms, <<>>)
      other == PhaseMap(InactiveLen(ms), w.off, ActiveLen(ms))
      t == ToneSwitch(sn + n, ms)
  IN [co |-> w.co,
      mo |-> IF ms THEN w.off ELSE other,
      so |-> IF ms THEN other ELSE w.off,
      sn |-> t.sn, ms |-> t.ms, flips |-> t.flips,
      buf |-> w.buf, pairs |-> w.i \div 2,
      status |-> TxStatus(do_exit)]

tx_callback(lengths, most) ==
  /\ streaming
  /\ pc # "done"
  /\ \E n \in lengths :
       /\ totalBytes + n <= most
       /\ LET f == Fill(n)
              same == runStart.ms = ms
          IN /\ co' = f.co /\ mo' = f.mo /\ so' = f.so
             /\ sn' = f.sn /\ ms' = f.ms
             /\ count' = n
             /\ buffer' = f.buf
             /\ ret' = <<f.status>>
             /\ pre' = [co |-> co, mo |-> mo, so |-> so, sn |-> sn, ms |-> ms,
                        do_exit |-> do_exit]
             /\ flipsInCall' = f.flips
             /\ nflips' = nflips + f.flips
             /\ totalBytes' = totalBytes + n
             /\ totalPairs' = totalPairs + f.pairs
             /\ runStart' = IF same THEN runStart
                                   ELSE [ms |-> ms, off |-> IF ms THEN mo ELSE so,
                                         co |-> co]
             /\ runPairs' = IF same THEN runPairs + f.pairs ELSE f.pairs
             /\ prev' = [flipped |-> flipsInCall = 1,
                         last |-> IF buffer = <<>> THEN <<>> ELSE buffer[Len(buffer)]]
  /\ UNCHANGED <<do_exit, streaming, mainv, cellv>>

\* tx_callback in a run without an end: the same step, with the counters that
\* grow for ever (nflips, totalBytes, totalPairs, runPairs) left as they are.
tx_callback_forever(lengths) ==
  /\ streaming
  /\ pc # "done"
  /\ \E n \in lengths :
       LET f == Fill(n)
       IN /\ co' = f.co /\ mo' = f.mo /\ so' = f.so
          /\ sn' = f.sn /\ ms' = f.ms
          /\ count' = n
          /\ buffer' = f.buf
          /\ ret' = <<f.status>>
          /\ pre' = [co |-> co, mo |-> mo, so |-> so, sn |-> sn, ms |-> ms,
                     do_exit |-> do_exit]
          /\ flipsInCall' = f.flips
          /\ prev' = [flipped |-> flipsInCall = 1,
                      last |-> IF buffer = <<>> THEN <<>> ELSE buffer[Len(buffer)]]
  /\ UNCHANGED <<nflips, totalBytes, totalPairs, runStart, runPairs>>
  /\ UNCHANGED <<do_exit, streaming, mainv, cellv>>

-----------------------------------------------------------------------------
(* sigint_callback_handler *)

sigint_callback_handler ==
  /\ handlers
  /\ pc # "done"
  /\ do_exit' = TRUE
  /\ UNCHANGED <<phase, streaming, mainv, ghost, cellv>>

-----------------------------------------------------------------------------
(* main *)

\* return status ;
Return(status) ==
  /\ pc' = "done"
  /\ exitStatus' = status

\* One libhackrf call that can fail, followed by
\* if ( result != HACKRF_SUCCESS ) return EXIT_FAILURE ;
Step(here, name, next) ==
  /\ pc = here
  /\ calls' = Append(calls, name)
  /\ \E r \in Results :
       /\ result' = r
       /\ failed' = IF r # HACKRF_SUCCESS THEN failed \cup {name} ELSE failed
       /\ IF r # HACKRF_SUCCESS
            THEN Return("EXIT_FAILURE")
            ELSE pc' = next /\ UNCHANGED exitStatus

\* co = 0 ; mo = 0 ; so = 0 ; sn = 0L ; ms = false ; signal ( ... ) x 6
MainInit ==
  /\ pc = "main"
  /\ co' = 0 /\ mo' = 0 /\ so' = 0
  /\ sn' = 0
  /\ ms' = FALSE
  /\ handlers' = TRUE
  /\ pc' = "precalc"
  /\ UNCHANGED <<failed, do_exit, streaming, device, tables, result, calls, exitStatus, ghost, cellv>>

\* A variant of Precalc that leaves the tables as they are.
PrecalcSkipped ==
  /\ pc = "precalc"
  /\ pc' = "hackrf_init"
  /\ UNCHANGED <<phase, do_exit, streaming, device, tables, result, handlers, calls,
                 exitStatus, failed, ghost, cellv>>

\* A variant of Scaled with a factor one too large.
ScaledLoud(u) == (Amplitude + 1) * u

\* 127.0 * sin ( ... ),  127.0 * cos ( ... ):  in units of 1 / Grain
Scaled(u) == Amplitude * u

\* The integer part of x / Grain: a conversion from double to an integer type
\* drops the fraction, towards zero.
Truncate(x) == IF x >= 0 THEN x \div Grain ELSE -((-x) \div Grain)

\* ( int8_t ) x: the values the cell can get.  A value whose integer part is not
\* an int8_t makes the conversion undefined: then any int8_t.
Int8Cast(x) ==
  IF Truncate(x) \in -128 .. 127 THEN {Truncate(x)} ELSE -128 .. 127

\* mi[s][c] = ( int8_t ) ( 127.0 * sin ( ... ) ) ; and the like: one cell
PrecalcCell ==
  /\ pc = "precalc"
  /\ stored = <<>>
  /\ \E v \in Int8Cast(Scaled(sample)) : stored' = <<v>>
  /\ UNCHANGED <<phase, do_exit, streaming, mainv, ghost, sample>>

\* The two loops that fill mi, mq, si and sq.
Precalc ==
  /\ pc = "precalc"
  /\ tables' = "built"
  /\ pc' = "hackrf_init"
  /\ UNCHANGED <<failed, phase, do_exit, streaming, device, result, handlers, calls,
                 exitStatus, ghost, cellv>>

HackrfInit ==
  /\ Step("hackrf_init", "hackrf_init", "hackrf_open")
  /\ UNCHANGED <<phase, do_exit, streaming, device, tables, handlers, ghost, cellv>>

HackrfOpen ==
  /\ Step("hackrf_open", "hackrf_open", "set_sample_rate")
  /\ device' = IF result' = HACKRF_SUCCESS THEN "dev" ELSE device
  /\ UNCHANGED <<phase, do_exit, streaming, tables, handlers, ghost, cellv>>

SetSampleRate ==
  /\ Step("set_sample_rate", "hackrf_set_sample_rate_manual", "set_bandwidth")
  /\ UNCHANGED <<phase, do_exit, streaming, device, tables, handlers, ghost, cellv>>

SetBandwidth ==
  /\ Step("set_bandwidth", "hackrf_set_baseband_filter_bandwidth", "start_tx")
  /\ UNCHANGED <<phase, do_exit, streaming, device, tables, handlers, ghost, cellv>>

\* result = hackrf_set_txvga_gain ( ... ) ; result |= hackrf_start_tx ( ... ) ;
\* if ( result != HACKRF_SUCCESS ) return EXIT_FAILURE ;
StartTx ==
  /\ pc = "start_tx"
  /\ calls' = calls \o <<"hackrf_set_txvga_gain", "hackrf_start_tx">>
  /\ \E g \in Results, t \in Results :
       /\ result' = IF g = HACKRF_SUCCESS /\ t = HACKRF_SUCCESS
                      THEN HACKRF_SUCCESS ELSE HACKRF_ERROR
       /\ streaming' = (t = HACKRF_SUCCESS)
       /\ failed' = failed \cup (IF g # HACKRF_SUCCESS THEN {"hackrf_set_txvga_gain"} ELSE {})
                           \cup (IF t # HACKRF_SUCCESS THEN {"hackrf_start_tx"} ELSE {})
       /\ IF result' # HACKRF_SUCCESS
            THEN Return("EXIT_FAILURE")
            ELSE pc' = "set_freq" /\ UNCHANGED exitStatus
  /\ UNCHANGED <<phase, do_exit, device, tables, handlers, ghost, cellv>>

SetFreq ==
  /\ Step("set_freq", "hackrf_set_freq", "amp_enable")
  /\ UNCHANGED <<phase, do_exit, streaming, device, tables, handlers, ghost, cellv>>

AmpEnable ==
  /\ Step("amp_enable", "hackrf_set_amp_enable", "spin")
  /\ UNCHANGED <<phase, do_exit, streaming, device, tables, handlers, ghost, cellv>>

\* A variant of Spinning that does not look at do_exit.
SpinningDeaf(isStreaming, giveUp) == isStreaming

\* ( hackrf_is_streaming ( device ) == HACKRF_TRUE ) && ( do_exit == false )
Spinning(isStreaming, giveUp) == isStreaming /\ ~giveUp

\* while ( ... ) sleep ( 1 ) ;   one evaluation of the condition
Spin ==
  /\ pc = "spin"
  /\ pc' = IF Spinning(streaming, do_exit) THEN "spin" ELSE "cleanup"
  /\ UNCHANGED <<failed, phase, do_exit, streaming, device, tables, result, handlers,
                 calls, exitStatus, ghost, cellv>>

\* result = hackrf_is_streaming ( device ) ; the message ; if ( device != NULL )
Cleanup ==
  /\ pc = "cleanup"
  /\ result' = IF streaming THEN "HACKRF_TRUE" ELSE "HACKRF_ERROR"
  /\ IF device # "NULL"
       THEN pc' = "stop_tx" /\ UNCHANGED exitStatus
       ELSE Return("EXIT_SUCCESS")
  /\ UNCHANGED <<failed, phase, do_exit, streaming, device, tables, handlers, calls, ghost, cellv>>

\* result = hackrf_stop_tx ( device ) ;   a failure is only reported
StopTx ==
  /\ pc = "stop_tx"
  /\ calls' = Append(calls, "hackrf_stop_tx")
  /\ \E r \in Results :
       /\ result' = r
       /\ failed' = IF r # HACKRF_SUCCESS THEN failed \cup {"hackrf_stop_tx"} ELSE failed
  /\ streaming' = FALSE
  /\ pc' = "close"
  /\ UNCHANGED <<phase, do_exit, device, tables, handlers, exitStatus, ghost, cellv>>

\* result = hackrf_close ( device ) ;   a failure is only reported
Close ==
  /\ pc = "close"
  /\ calls' = Append(calls, "hackrf_close")
  /\ \E r \in Results :
       /\ result' = r
       /\ failed' = IF r # HACKRF_SUCCESS THEN failed \cup {"hackrf_close"} ELSE failed
  /\ pc' = "hackrf_exit"
  /\ UNCHANGED <<phase, do_exit, streaming, device, tables, handlers, exitStatus, ghost, cellv>>

\* hackrf_exit() ; return EXIT_SUCCESS ;
HackrfExit ==
  /\ pc = "hackrf_exit"
  /\ calls' = Append(calls, "hackrf_exit")
  /\ Return("EXIT_SUCCESS")
  /\ UNCHANGED <<failed, phase, do_exit, streaming, device, tables, result, handlers, ghost, cellv>>

Main ==
  \/ MainInit \/ Precalc \/ HackrfInit \/ HackrfOpen \/ SetSampleRate
  \/ SetBandwidth \/ StartTx \/ SetFreq \/ AmpEnable \/ Spin \/ Cleanup
  \/ StopTx \/ Close \/ HackrfExit

-----------------------------------------------------------------------------
(* The device stops streaming by itself (a transfer error, the cable pulled). *)
StreamEnds ==
  /\ streaming
  /\ pc # "done"
  /\ streaming' = FALSE
  /\ UNCHANGED <<phase, do_exit, mainv, ghost, cellv>>

-----------------------------------------------------------------------------
Init ==
  /\ co = 0 /\ mo = 0 /\ so = 0
  /\ sn = 0
  /\ ms = FALSE
  /\ do_exit = FALSE
  /\ device = "NULL"
  /\ tables = "zero"
  /\ pc = "main"
  /\ result = HACKRF_SUCCESS
  /\ handlers = FALSE
  /\ streaming = FALSE
  /\ calls = <<>>
  /\ exitStatus = "running"
  /\ failed = {}
  /\ count = 0
  /\ buffer = <<>>
  /\ ret = <<>>
  /\ pre = [co |-> 0, mo |-> 0, so |-> 0, sn |-> 0, ms |-> FALSE, do_exit |-> FALSE]
  /\ flipsInCall = 0
  /\ nflips = 0
  /\ totalBytes = 0
  /\ totalPairs = 0
  /\ runStart = [ms |-> FALSE, off |-> 0, co |-> 0]
  /\ runPairs = 0
  /\ prev = [flipped |-> FALSE, last |-> <<>>]
  /\ sample = 0
  /\ stored = <<>>

\* The transfer lengths tried while main is followed step by step.
SomeLengths == {0, 1, 2, sr, BufLen}

Next ==
  \/ tx_callback(SomeLengths, MaxAnyBytes)
  \/ sigint_callback_handler
  \/ StreamEnds
  \/ MainInit \/ Precalc \/ HackrfInit \/ HackrfOpen \/ SetSampleRate
  \/ SetBandwidth \/ StartTx \/ SetFreq \/ AmpEnable \/ Spin \/ Cleanup
  \/ StopTx \/ Close \/ HackrfExit

Spec == Init /\ [][Next]_vars

\* The generator on its own: main has set the device up and waits in its
\* polling loop (a state Spec reaches), and the driver hands over transfers.
GenInit ==
  /\ co = 0 /\ mo = 0 /\ so = 0
  /\ sn = 0
  /\ ms = FALSE
  /\ do_exit = FALSE
  /\ device = "dev"
  /\ tables = "built"
  /\ pc = "spin"
  /\ result = HACKRF_SUCCESS
  /\ handlers = TRUE
  /\ streaming = TRUE
  /\ calls = <<"hackrf_init", "hackrf_open", "hackrf_set_sample_rate_manual",
               "hackrf_set_baseband_filter_bandwidth", "hackrf_set_txvga_gain",
               "hackrf_start_tx", "hackrf_set_freq", "hackrf_set_amp_enable">>
  /\ exitStatus = "running"
  /\ failed = {}
  /\ count = 0
  /\ buffer = <<>>
  /\ ret = <<>>
  /\ pre = [co |-> 0, mo |-> 0, so |-> 0, sn |-> 0, ms |-> FALSE, do_exit |-> FALSE]
  /\ flipsInCall = 0
  /\ nflips = 0
  /\ totalBytes = 0
  /\ totalPairs = 0
  /\ runStart = [ms |-> FALSE, off |-> 0, co |-> 0]
  /\ runPairs = 0
  /\ prev = [flipped |-> FALSE, last |-> <<>>]
  /\ sample = 0
  /\ stored = <<>>

\* The lengths the callback contract allows: interleaved I and Q, so even.
EvenLengths == {n \in 0 .. BufLen : n % 2 = 0}

GenNext ==
  \/ tx_callback(EvenLengths, MaxBytes)
  \/ sigint_callback_handler

\* Transfers of every even length.
GenSpec == GenInit /\ [][GenNext]_vars

AnyNext ==
  \/ tx_callback(0 .. BufLen, MaxAnyBytes)
  \/ sigint_callback_handler

\* Transfers of every length, odd ones too.
AnySpec == GenInit /\ [][AnyNext]_vars

\* Positive even lengths of at most sr bytes: with longer ones sn has no bound.
ShortLengths == {n \in 2 .. sr : n % 2 = 0}

LoopNext ==
  \/ tx_callback_forever(ShortLengths)
  \/ sigint_callback_handler

\* The generator in a run without an end: the driver keeps handing over
\* transfers of positive even length.
LoopSpec ==
  GenInit /\ [][LoopNext]_vars /\ WF_vars(tx_callback_forever(ShortLengths))

\* The conversion of a table cell on its own: main is about to fill the
\* tables (a state Spec reaches) and sin or cos has any of its values.
CastInit ==
  /\ co = 0 /\ mo = 0 /\ so = 0
  /\ sn = 0
  /\ ms = FALSE
  /\ do_exit = FALSE
  /\ device = "NULL"
  /\ tables = "zero"
  /\ pc = "precalc"
  /\ result = HACKRF_SUCCESS
  /\ handlers = TRUE
  /\ streaming = FALSE
  /\ calls = <<>>
  /\ exitStatus = "running"
  /\ failed = {}
  /\ count = 0
  /\ buffer = <<>>
  /\ ret = <<>>
  /\ pre = [co |-> 0, mo |-> 0, so |-> 0, sn |-> 0, ms |-> FALSE, do_exit |-> FALSE]
  /\ flipsInCall = 0
  /\ nflips = 0
  /\ totalBytes = 0
  /\ totalPairs = 0
  /\ runStart = [ms |-> FALSE, off |-> 0, co |-> 0]
  /\ runPairs = 0
  /\ prev = [flipped |-> FALSE, last |-> <<>>]
  /\ sample \in -Grain .. Grain
  /\ stored = <<>>

CastNext == PrecalcCell

CastSpec == CastInit /\ [][CastNext]_vars

\* main keeps running: the scheduler does not starve the main thread, and every
\* libhackrf call and sleep ( 1 ) returns.
LiveSpec == Spec /\ WF_vars(Main)

-----------------------------------------------------------------------------
(* Properties *)

\* tx_callback has run at least once.
called == ret # <<>>

\* C1: a transfer of even length L adds L/2, the number of pairs written, to sn,
\* ms is inverted at the end of the transfer exactly when the sum reaches sr, and
\* so ms is first inverted only after sr pairs have been written.
C1_FlipAfterFullSecond ==
  /\ called /\ count % 2 = 0 =>
       /\ sn + sr * flipsInCall = pre.sn + count \div 2
       /\ (flipsInCall = 1) <=> (pre.sn + count \div 2 >= sr)
  /\ nflips > 0 => totalPairs >= sr

\* C2: co, mo and so index inside the tables in every state, the mapped offset
\* included, and every byte written was read at a row and column of its table.
C2_OffsetsInRange ==
  /\ co \in 0 .. CarrierLen - 1
  /\ mo \in 0 .. MarkLen - 1
  /\ so \in 0 .. SpaceLen - 1
  /\ \A k \in 1 .. Len(buffer) :
       /\ buffer[k][2] \in 0 .. ActiveLen(buffer[k][1] \in {"mi", "mq"}) - 1
       /\ buffer[k][3] \in 0 .. CarrierLen - 1

\* C2 is checked where the top row of the longer table is mapped.
C2_Witness ==
  /\ called /\ count > 0 /\ pre.ms
  /\ mo = MarkLen - 1
  /\ so = SpaceLen - 1

\* C3: after a transfer the offset of the tone that was not played is
\* floor(its table length * the played tone's offset / the played table's length).
C3_InactiveMapped ==
  called =>
    IF pre.ms THEN so * MarkLen <= SpaceLen * mo /\ SpaceLen * mo < (so + 1) * MarkLen
              ELSE mo * SpaceLen <= MarkLen * so /\ MarkLen * so < (mo + 1) * SpaceLen

\* C3 is checked on transfers of both tones where the quotient is not exact,
\* and on one of odd length.
C3_Witness ==
  /\ called /\ count % 2 = 1
  /\ ~pre.ms /\ so > 0 /\ (MarkLen * so) % SpaceLen # 0
  /\ mo > so

\* C4: a transfer of length L writes L bytes, at the indices 0 .. L - 1.
C4_WritesWithinLength == called => Len(buffer) = count

C6_OneFlipPerTransfer ==
  /\ called => /\ flipsInCall <= 1
               /\ (ms # pre.ms) <=> (flipsInCall = 1)
  /\ called /\ totalBytes = count /\ count = 2 * sr =>
       /\ pre.co = 0 /\ pre.mo = 0 /\ pre.so = 0 /\ pre.sn = 0 /\ ~pre.ms
       /\ ms
       /\ nflips = 1

\* C6 is checked on the first transfer, of 2 * sr bytes.
C6_Witness ==
  /\ called /\ totalBytes = count /\ count = 2 * sr
  /\ ms

\* C7: tx_callback returns 0, whatever the state, the length and do_exit.
C7_ReturnsZero == \A k \in 1 .. Len(ret) : ret[k] = 0

\* C7 is checked on a transfer of odd length that began with do_exit set.
C7_Witness ==
  /\ called /\ pre.do_exit /\ count % 2 = 1
  /\ ret = <<0>>

\* C8: after N * CarrierLen pairs of one tone, N the rows of its table, the
\* tone's offset and co are back where they began, and so are the cells read.
C8_Periodic ==
  LET period == ActiveLen(runStart.ms) * CarrierLen
  IN /\ runPairs % period = 0 =>
          /\ (IF runStart.ms THEN mo ELSE so) = runStart.off
          /\ co = runStart.co
     /\ \A k \in 1 .. Len(buffer) :
          k + 2 * period <= Len(buffer) => buffer[k + 2 * period] = buffer[k]

\* C8 is checked on one mark period split over several transfers that begins
\* off the table's first row.
C8_Witness ==
  /\ called /\ runStart.ms /\ runStart.off > 0
  /\ runPairs = MarkLen * CarrierLen
  /\ 0 < count /\ count < 2 * runPairs

\* C8 within one transfer: the bytes repeat after a period.
C8_WitnessOneTransfer ==
  /\ called /\ pre.ms
  /\ Len(buffer) > 2 * MarkLen * CarrierLen

\* The last three libhackrf calls of main are the teardown, in order.
TornDown ==
  /\ Len(calls) >= 3
  /\ SubSeq(calls, Len(calls) - 2, Len(calls)) =
       <<"hackrf_stop_tx", "hackrf_close", "hackrf_exit">>

\* C10: once main is in its polling loop and do_exit is set, main leaves the
\* loop, calls hackrf_stop_tx, hackrf_close and hackrf_exit in that order and
\* returns; and do_exit, once set, stays set.
C10_Teardown ==
  /\ (pc = "spin" /\ do_exit) ~> (pc = "done" /\ TornDown)
  /\ [][do_exit => do_exit']_vars

\* C10 is checked on a run that a signal ended while the device was streaming.
C10_Witness ==
  /\ pc = "done" /\ do_exit /\ TornDown
  /\ exitStatus = "EXIT_SUCCESS"
  /\ totalBytes > 0

\* The libhackrf calls main has made, as a set.
Called == {calls[k] : k \in 1 .. Len(calls)}

\* C11: when a libhackrf step (init, open, the configuration steps, start or
\* stop of streaming) has failed, main returns EXIT_FAILURE; it returns
\* EXIT_SUCCESS only when none has.
C11_FailureIsFatal ==
  pc = "done" /\ failed \ {"hackrf_close"} # {} => exitStatus = "EXIT_FAILURE"

\* C19: when main returns after hackrf_open succeeded, it has called
\* hackrf_close, and hackrf_stop_tx too if hackrf_start_tx had started the stream.
C19_ReleasedOnExit ==
  pc = "done" /\ device # "NULL" =>
    /\ "hackrf_close" \in Called
    /\ "hackrf_start_tx" \in Called \ failed => "hackrf_stop_tx" \in Called

\* The integer nearest to x / Grain, halves away from zero.
RoundNearest(x) ==
  IF x >= 0 THEN (2 * x + Grain) \div (2 * Grain)
            ELSE -((2 * (-x) + Grain) \div (2 * Grain))

\* C12: a table cell holds the integer nearest to 127 * sin or 127 * cos.
C12_CellIsRounded ==
  \A k \in 1 .. Len(stored) : stored[k] = RoundNearest(Amplitude * sample)

\* C13: a table cell lies in -127 .. 127: the conversion to int8_t never wraps.
C13_CellInRange == \A k \in 1 .. Len(stored) : stored[k] \in -127 .. 127

\* C13 is checked where sin or cos is 1 and the cell is 127.
C13_Witness == sample = Grain /\ stored = <<127>>

\* C14: when a transfer ended with a flip, the next transfer reads its first
\* pair at the row floor(new length * a / old length), a the old tone's offset
\* after the flipping transfer, and at the carrier step after the last one played.
C14_ResumesAtMappedRow ==
  called /\ prev.flipped /\ count > 0 =>
    LET old == ~pre.ms
        a == IF old THEN pre.mo ELSE pre.so
        row == (ActiveLen(pre.ms) * a) \div ActiveLen(old)
        step == IF prev.last = <<>> THEN pre.co ELSE (prev.last[3] + 1) % CarrierLen
    IN /\ buffer[1] = <<TableI(pre.ms), row, step>>
       /\ buffer[2] = <<TableQ(pre.ms), row, step>>

\* C14 is checked on a switch from space to mark that resumes off the first row.
C14_Witness ==
  /\ called /\ prev.flipped /\ count > 0
  /\ pre.ms /\ prev.last # <<>>
  /\ buffer[1][2] > 0 /\ buffer[1][3] > 0

\* C15: what the transfers have added to sn is sn plus sr for every flip, and
\* ms holds exactly after an odd number of flips.
C15_CarryNotReset ==
  /\ totalBytes = sn + sr * nflips
  /\ ms <=> nflips % 2 = 1

\* C15 is checked after two flips with a remainder carried.
C15_Witness == nflips >= 2 /\ sn > 0 /\ ~ms

\* C16: co is the number of pairs written so far, modulo the carrier length.
C16_CarrierContinuous == co = totalPairs % CarrierLen

\* C16 is checked after a flip at an odd carrier step.
C16_Witness == called /\ flipsInCall = 1 /\ co = 1 /\ totalPairs > CarrierLen

\* C17: while transfers of positive even length keep coming, mark and space
\* both come again and again, and ms changes only in a step of tx_callback.
C17_FlipsForEver ==
  /\ []<>ms
  /\ []<>~ms
  /\ [][ms' # ms =>
          /\ flipsInCall' = 1
          /\ pre' = [co |-> co, mo |-> mo, so |-> so, sn |-> sn, ms |-> ms,
                     do_exit |-> do_exit]]_vars

\* C17 is checked where a transfer has gone back from mark to space.
C17_Witness == called /\ flipsInCall = 1 /\ pre.ms /\ ~ms

\* C18: streaming starts with the tables built and co, mo, so, sn, ms at their
\* initial values; after that the tables are not written, co, mo, so, sn, ms
\* change only in a step of tx_callback, and such a step leaves the tables and
\* do_exit alone.
C18_Lifecycle ==
  /\ [](streaming \/ called => tables = "built")
  /\ [][~streaming /\ streaming' =>
          /\ tables = "built"
          /\ co = 0 /\ mo = 0 /\ so = 0 /\ sn = 0 /\ ~ms]_vars
  /\ []["hackrf_start_tx" \in Called => tables' = tables]_vars
  /\ [][phase' # phase =>
          /\ pre' = [co |-> co, mo |-> mo, so |-> so, sn |-> sn, ms |-> ms,
                     do_exit |-> do_exit]
          /\ tables' = tables
          /\ do_exit' = do_exit]_vars

\* C18 is checked where the generator has run while main waits.
C18_Witness ==
  /\ called /\ count > 0 /\ pc = "spin"
  /\ tables = "built"
  /\ co = 1

=============================================================================
